---- MODULE Spec2Model ----
(***************************************************************************)
(* The streaming inference request lifecycle of the LLM controller: the    *)
(* registry of in-flight requests (activeRequests), the chat and           *)
(* chatWithFile handlers with their upstream 'data'/'end'/'error' and      *)
(* downstream 'close' callbacks, the stop / stopAll command and the sweep  *)
(* of expired requests.                                                    *)
(*                                                                         *)
(* The repository holds three copies of the controller:                    *)
(*   "main"  : src/unnamed/part_009 (chat, chatWithFile, stop, sweep)      *)
(*   "safe"  : src/unnamed/part_010, lines 1-196 (safeWrite / safeEnd)     *)
(*   "plain" : src/unnamed/part_010, lines 197-369                         *)
(* A run of the model is a run of one of them (variable impl).             *)
(*                                                                         *)
(* JavaScript runs every callback to completion, so each handler segment   *)
(* between two awaits, and each event callback, is one action.  abort() of *)
(* node-fetch rejects a pending fetch and emits 'error' (AbortError) on a  *)
(* response body synchronously, so the body's 'error' callback runs inside *)
(* the action that calls abort().                                          *)
(***************************************************************************)
EXTENDS Integers, Sequences, FiniteSets, TLC

\* ---------------------------------------------------------------- bounds
MaxReq == 2          \* requests that arrive in a run
MaxTurns == 2        \* turns in the messages of a request
MaxTicks == 2        \* ten-minute steps the clock makes in a run

Ids == 1..MaxReq
Users == {"u1", "u2"}
Impls == {"main", "safe", "plain"}

tenMinutes == 600000   \* 10 * 60 * 1000
TickMs == tenMinutes   \* the clock is read in steps of ten minutes

\* ----------------------------------------------------------------- text
\* A string is a sequence of characters; LF is "\n", SP is " ".
LF == "LF"
SP == " "
DataPrefix == <<"d", "a", "t", "a", ":", SP>>
ErrorPrefix == <<"e", "r", "r", "o", "r", ":", SP>>
DONE == <<"[", "D", "O", "N", "E", "]">>
Digits == {"1", "2"}

\* String.prototype.startsWith
StartsWith(s, p) == Len(s) >= Len(p) /\ SubSeq(s, 1, Len(p)) = p

\* String.prototype.slice(n)
Slice(s, n) == SubSeq(s, n + 1, Len(s))

\* String.prototype.trim (the only white space of the alphabet is SP)
RECURSIVE TrimLeft(_)
TrimLeft(s) == IF s # <<>> /\ Head(s) = SP THEN TrimLeft(Tail(s)) ELSE s

RECURSIVE TrimRight(_)
TrimRight(s) ==
    IF s # <<>> /\ s[Len(s)] = SP THEN TrimRight(SubSeq(s, 1, Len(s) - 1)) ELSE s

Trim(s) == TrimRight(TrimLeft(s))

\* String.prototype.split('\n'): the pieces between the line feeds, the empty
\* ones included ("a\n" gives <<"a", "">>).
RECURSIVE SplitFrom(_, _, _)
SplitFrom(s, cur, acc) ==
    IF s = <<>> THEN Append(acc, cur)
    ELSE IF Head(s) = LF THEN SplitFrom(Tail(s), <<>>, Append(acc, cur))
    ELSE SplitFrom(Tail(s), Append(cur, Head(s)), acc)

Split(s) == SplitFrom(s, <<>>, <<>>)

\* JSON.parse over the alphabet of the model: a text parses iff, white space
\* around it dropped, it is a non-empty run of digits (a number).
JsonOk(s) ==
    LET t == Trim(s) IN t # <<>> /\ \A k \in 1..Len(t) : t[k] \in Digits

\* JSON.stringify(JSON.parse(s)) for a text that parses: the number without
\* the white space around it.
JsonRoundTrip(s) == Trim(s)

\* ------------------------------------------------------- upstream bodies
\* One upstream frame: "data: <payload>\n\n".
Frame(p) == DataPrefix \o p \o <<LF, LF>>

\* Logical upstream byte streams.
Stream1 == Frame(<<"1", "2">>) \o Frame(DONE)
Stream2 == Frame(<<"1">>) \o Frame(<<"x">>) \o Frame(<<"2">>) \o Frame(DONE)
Stream3 == ErrorPrefix \o <<"x", LF, LF>> \o Frame(DONE)
Stream4 == Frame(<<"1">>)

\* s in two physical chunks, the first of k characters.
Cut(s, k) == <<SubSeq(s, 1, k), SubSeq(s, k + 1, Len(s))>>

\* The response bodies an upstream call may deliver: a sequence of chunks.
Bodies ==
    { <<Stream1>>,          \* one chunk holding both frames
      Cut(Stream1, 10),     \* one frame per chunk
      Cut(Stream1, 7),      \* a chunk boundary inside the first payload
      Cut(Stream1, 19),     \* a chunk boundary inside the sentinel
      <<Stream2>>,          \* a frame whose payload does not parse
      <<Stream3>>,          \* an "error: " line
      <<Stream4>> }         \* the body ends without a sentinel

\* The bodies the model gives request i: every one to the first request, and
\* to a later one a single chunk, with and without the sentinel.
BodiesFor(i) == IF i = 1 THEN Bodies ELSE {<<Stream1>>, <<Stream4>>}

RECURSIVE Flatten(_)
Flatten(chunks) ==
    IF chunks = <<>> THEN <<>> ELSE Head(chunks) \o Flatten(Tail(chunks))

\* ---------------------------------------------------------------- state
VARIABLES
    impl,            \* which copy of the controller runs
    now,             \* Date.now() when the last request arrived
    nextId,          \* the next identifier uuidv4 returns
    req,             \* per id: the accepted request (kind, stream, user)
    pc,              \* per id: where its handler stands: "new" (not arrived),
                     \* "fetch", "text", "json" (awaiting the upstream call, the
                     \* text of a non-2xx answer, the JSON of a 2xx answer),
                     \* "stream" (reading the body), or finished: "ended",
                     \* "failed", "aborted" (the upstream ended, failed, was
                     \* aborted), "refused" (non-2xx answered), "answered"
                     \* (non-streaming answer sent), "returned" (no upstream
                     \* call), "rejected" (answered 400 before the handler's body)
    activeRequests,  \* the registry: id -> [userId, startTime]
    aborted,         \* per id: abortController.signal.aborted
    finished,        \* per id: the closure variable `finished` of "safe"
    res,             \* per id: the downstream response object
    body,            \* per id: the chunks the upstream body has yet to emit
    bodyAll,         \* per id: the chunks the upstream body was given
    escaped          \* per id: an exception left the handler

vars == <<impl, now, nextId, req, pc, activeRequests, aborted, finished, res,
          body, bodyAll, escaped>>

\* kind: "chat" or "file"; file: what became of the named file; onClose: a
\* 'close' handler is registered on the response.
NoReq == [kind |-> "none", stream |-> FALSE, user |-> "none", file |-> "none",
          onClose |-> FALSE]

\* No entry under an id of the registry.
NoEntry == [present |-> FALSE, userId |-> "none", startTime |-> 0]

\* A fresh http.ServerResponse.  out: the events delivered to the client;
\* writeAfterEnd: res.write() was called on an ended response; endAgain:
\* res.end() was called on an ended response.
NewRes == [headersSent |-> FALSE, writableEnded |-> FALSE, closed |-> FALSE,
           out |-> <<>>, writeAfterEnd |-> FALSE, endAgain |-> FALSE]

\* An event written downstream.  rid: the request id it carries (0: none);
\* status: it carries the upstream status; data: a frame's payload; at: the
\* <<chunk, line>> of the upstream frame it forwards (<<0, 0>>: none).
Ev(type, rid, status, data, at) ==
    [type |-> type, rid |-> rid, status |-> status, data |-> data, at |-> at]

\* ------------------------------------------------------- request bodies
\* A turn of req.body.messages.  role "" stands for a missing or empty role,
\* content <<>> for a missing or empty content.
Roles == {"", "user", "bot"}
Contents == {<<>>, <<SP>>, <<"h">>}
Turns == [role : Roles, content : Contents]

\* req.body.messages: absent, not an array, or an array of turns.
Messages ==
    {[shape |-> "missing", turns |-> <<>>], [shape |-> "notarray", turns |-> <<>>]}
    \cup {[shape |-> "array", turns |-> t] :
             t \in UNION {[1..n -> Turns] : n \in 0..MaxTurns}}

\* validateChatRequest: the loop over the messages, from message k on.
RECURSIVE ValidateTurns(_, _)
ValidateTurns(turns, k) ==
    IF k > Len(turns) THEN "next"
    ELSE IF turns[k].role = "" \/ turns[k].content = <<>> THEN "400"
    ELSE IF turns[k].role \notin {"system", "user", "assistant"} THEN "400"
    ELSE IF Len(Trim(turns[k].content)) = 0 THEN "400"
    ELSE ValidateTurns(turns, k + 1)

\* validateChatRequest(req, res, next): "400" or "next".  optsOk: model,
\* stream, temperature, max_tokens and the size limits pass their checks.
validateChatRequest(m, optsOk) ==
    IF m.shape = "missing" THEN "400"
    ELSE IF m.shape # "array" THEN "400"
    ELSE IF Len(m.turns) = 0 THEN "400"
    ELSE IF ValidateTurns(m.turns, 1) = "400" THEN "400"
    ELSE IF ~optsOk THEN "400"
    ELSE "next"

\* The checks of chat and chatWithFile on messages: the loop from message k on.
RECURSIVE HandlerTurns(_, _)
HandlerTurns(turns, k) ==
    IF k > Len(turns) THEN "next"
    ELSE IF turns[k].role = "" \/ turns[k].content = <<>> THEN "400"
    ELSE IF turns[k].role \notin {"system", "user", "assistant"} THEN "400"
    ELSE HandlerTurns(turns, k + 1)

\* The checks at the head of chat and chatWithFile of "main"; the copies of
\* part_010 check nothing.  noName: chatWithFile without a fileName.
HandlerChecks(im, m, noName) ==
    IF im # "main" THEN "next"
    ELSE IF m.shape # "array" \/ Len(m.turns) = 0 THEN "400"
    ELSE IF noName THEN "400"
    ELSE HandlerTurns(m.turns, 1)

\* A route that binds the handler without validateChatRequest.
RouteHandlerOnly(im, m, optsOk, noName) == HandlerChecks(im, m, noName)

\* What the route does with a request body under copy im of the controller:
\* "400", or "next" into the rest of the handler.
Route(im, m, optsOk, noName) ==
    IF validateChatRequest(m, optsOk) = "400" THEN "400"
    ELSE HandlerChecks(im, m, noName)

\* Per copy: some request body passes the route's checks.
SomePass ==
    [im \in Impls |-> \E m \in Messages : Route(im, m, TRUE, FALSE) = "next"]

\* Per copy and route: some request body is answered with 400.
SomeFail ==
    [im \in Impls |->
       [kind \in {"chat", "file"} |->
          \E m \in Messages, optsOk \in BOOLEAN, noName \in BOOLEAN :
             /\ noName => kind = "file"
             /\ Route(im, m, optsOk, noName) = "400"]]

Init ==
    /\ impl \in Impls
    /\ now = 0
    /\ nextId = 1
    /\ req = [i \in Ids |-> NoReq]
    /\ pc = [i \in Ids |-> "new"]
    /\ activeRequests = [i \in Ids |-> NoEntry]
    /\ aborted = [i \in Ids |-> FALSE]
    /\ finished = [i \in Ids |-> FALSE]
    /\ res = [i \in Ids |-> NewRes]
    /\ body = [i \in Ids |-> <<>>]
    /\ bodyAll = [i \in Ids |-> <<>>]
    /\ escaped = [i \in Ids |-> FALSE]

\* The part of the state a callback reads and writes, as one record, so that
\* the statements of a callback compose in sequence.
Cur == [reg |-> activeRequests, res |-> res, ac |-> aborted, fin |-> finished,
        pc |-> pc, esc |-> escaped]

Set(S) ==
    /\ activeRequests' = S.reg
    /\ res' = S.res
    /\ aborted' = S.ac
    /\ finished' = S.fin
    /\ pc' = S.pc
    /\ escaped' = S.esc

\* ------------------------------------------------------ response object
\* A response that puts the newest event in front of the ones written before.
WriteFirst(S, i, ev) ==
    IF S.res[i].closed THEN S
    ELSE IF S.res[i].writableEnded THEN [S EXCEPT !.res[i].writeAfterEnd = TRUE]
    ELSE [S EXCEPT !.res[i].out = <<ev>> \o @, !.res[i].headersSent = TRUE]

\* res.write(ev): delivered while the response is open; on an ended response
\* it is an ERR_STREAM_WRITE_AFTER_END; on a destroyed one it is dropped.
Write(S, i, ev) ==
    IF S.res[i].closed THEN S
    ELSE IF S.res[i].writableEnded THEN [S EXCEPT !.res[i].writeAfterEnd = TRUE]
    ELSE [S EXCEPT !.res[i].out = Append(@, ev), !.res[i].headersSent = TRUE]

\* res.end()
End(S, i) ==
    [S EXCEPT !.res[i].writableEnded = TRUE,
              !.res[i].headersSent = (@ \/ ~S.res[i].closed),
              !.res[i].endAgain = (@ \/ S.res[i].writableEnded)]

\* res.status(code).json(payload) and res.setHeader(...) throw
\* ERR_HTTP_HEADERS_SENT once the headers are sent.
HeadersThrow(S, i) == S.res[i].headersSent

\* res.status(code).json(payload), when it does not throw.
Json(S, i, ev) ==
    IF S.res[i].closed THEN End(S, i)
    ELSE [S EXCEPT !.res[i].out = Append(@, ev), !.res[i].headersSent = TRUE,
                   !.res[i].writableEnded = TRUE]

\* ------------------------------------------------------------- registry
\* activeRequests.set(requestId, {abortController, response, userId, startTime})
addActiveRequest(S, i, userId, startTime) ==
    [S EXCEPT !.reg[i] = [present |-> TRUE, userId |-> userId,
                          startTime |-> startTime]]

\* activeRequests.delete(requestId)
removeActiveRequest(S, i) == [S EXCEPT !.reg[i] = NoEntry]

Registered(i) == activeRequests[i].present

\* ------------------------------------------------------ events written
StartEv(i) == Ev("start", i, FALSE, <<>>, <<0, 0>>)
FileInfoEv(i) == Ev("file_info", i, FALSE, <<>>, <<0, 0>>)
StoppedEv(i) == Ev("stopped", i, FALSE, <<>>, <<0, 0>>)
DoneEv(k, l) == Ev("done", 0, FALSE, DataPrefix \o DONE, <<k, l>>)

\* The error event of a non-2xx upstream answer.
\* chat: {error, details: errorText, requestId}; chatWithFile: {error,
\* message: `LLM API错误: ${response.status}`, fileInfo, requestId};
\* "safe", "plain": error: {error: 'API调用失败'}.
NotOkEv(i) ==
    IF impl = "main"
    THEN Ev("error", i, req[i].kind = "file", <<>>, <<0, 0>>)
    ELSE Ev("error", 0, FALSE, <<>>, <<0, 0>>)

\* The error event of a failed upstream call or stream.
FailEv(i) ==
    IF impl = "main" THEN Ev("error", i, FALSE, <<>>, <<0, 0>>)
    ELSE Ev("error", 0, FALSE, <<>>, <<0, 0>>)

\* ---------------------------------------------- "safe": safeWrite, safeEnd
safeWrite(S, i, ev) ==
    IF S.fin[i] \/ S.res[i].writableEnded THEN S ELSE Write(S, i, ev)

safeEnd(S, i) ==
    IF S.fin[i] THEN S
    ELSE LET S1 == [S EXCEPT !.fin[i] = TRUE]
             S2 == IF ~S1.res[i].writableEnded THEN End(S1, i) ELSE S1
         IN removeActiveRequest(S2, i)

\* ------------------------------------------- upstream body: 'error', 'end'
\* response.body.on('error', ...); abortErr: the error is an AbortError.
OnError(S, i, abortErr) ==
    CASE impl = "main" ->
           LET S1 == IF ~abortErr /\ ~S.res[i].writableEnded
                     THEN End(Write(S, i, FailEv(i)), i)
                     ELSE S
           IN removeActiveRequest(S1, i)
      [] impl = "safe" ->
           IF abortErr THEN safeEnd(S, i)
           ELSE safeEnd(safeWrite(S, i, FailEv(i)), i)
      [] OTHER ->
           removeActiveRequest(End(Write(S, i, FailEv(i)), i), i)

\* An 'end' callback that puts the entry back into the registry.
OnEndRegisters(S, i) == addActiveRequest(End(S, i), i, req[i].user, 0)

\* response.body.on('end', ...)
OnEnd(S, i) ==
    IF impl = "safe" THEN safeEnd(S, i)
    ELSE removeActiveRequest(End(S, i), i)

\* abortController.abort(): the first call sets signal.aborted and fires the
\* signal's 'abort' event; node-fetch then rejects the pending call, or, when
\* the response body is being read, emits 'error' (AbortError) on it.
Abort(S, i) ==
    IF S.ac[i] THEN S
    ELSE LET S1 == [S EXCEPT !.ac[i] = TRUE] IN
         IF S.pc[i] = "stream"
         THEN OnError([S1 EXCEPT !.pc[i] = "aborted"], i, TRUE)
         ELSE S1

\* ----------------------------------------------- upstream body: 'data'
\* The loop over the lines of one chunk, from line l on; k is the chunk's
\* number.  "main", chat.
RECURSIVE MainLines(_, _, _, _, _)
MainLines(S, i, k, lines, l) ==
    IF l > Len(lines) THEN S
    ELSE IF StartsWith(lines[l], DataPrefix) THEN
        LET data == Slice(lines[l], 6) IN
        IF Trim(data) = DONE
        THEN removeActiveRequest(End(Write(S, i, DoneEv(k, l)), i), i)
        ELSE IF JsonOk(data)
        THEN MainLines(Write(S, i, Ev("delta", 0, FALSE,
                                      DataPrefix \o JsonRoundTrip(data), <<k, l>>)),
                       i, k, lines, l + 1)
        ELSE MainLines(S, i, k, lines, l + 1)
    ELSE MainLines(S, i, k, lines, l + 1)

\* "safe": onData's loop.
RECURSIVE SafeLines(_, _, _, _, _)
SafeLines(S, i, k, lines, l) ==
    IF l > Len(lines) THEN S
    ELSE IF StartsWith(lines[l], DataPrefix) THEN
        IF Trim(Slice(lines[l], 6)) = DONE
        THEN safeEnd(safeWrite(S, i, DoneEv(k, l)), i)
        ELSE SafeLines(safeWrite(S, i, Ev("delta", 0, FALSE, lines[l], <<k, l>>)),
                       i, k, lines, l + 1)
    ELSE IF StartsWith(lines[l], ErrorPrefix)
    THEN SafeLines(safeWrite(S, i, Ev("errline", 0, FALSE, lines[l], <<k, l>>)),
                   i, k, lines, l + 1)
    ELSE SafeLines(S, i, k, lines, l + 1)

\* "plain": the 'data' callback's loop.
RECURSIVE PlainLines(_, _, _, _, _)
PlainLines(S, i, k, lines, l) ==
    IF l > Len(lines) THEN S
    ELSE IF StartsWith(lines[l], DataPrefix) THEN
        IF Trim(Slice(lines[l], 6)) = DONE
        THEN removeActiveRequest(End(Write(S, i, DoneEv(k, l)), i), i)
        ELSE PlainLines(Write(S, i, Ev("delta", 0, FALSE, lines[l], <<k, l>>)),
                        i, k, lines, l + 1)
    ELSE IF StartsWith(lines[l], ErrorPrefix)
    THEN PlainLines(Write(S, i, Ev("errline", 0, FALSE, lines[l], <<k, l>>)),
                    i, k, lines, l + 1)
    ELSE PlainLines(S, i, k, lines, l + 1)

\* response.body.on('data', ...) on chunk number k.
OnData(S, i, k, chunk) ==
    CASE impl = "main" /\ req[i].kind = "chat" ->
           MainLines(S, i, k, Split(chunk), 1)
      [] impl = "main" /\ req[i].kind = "file" ->
           Write(S, i, Ev("raw", 0, FALSE, chunk, <<k, 0>>))
      [] impl = "safe" ->
           IF S.fin[i] \/ S.res[i].writableEnded THEN S
           ELSE SafeLines(S, i, k, Split(chunk), 1)
      [] OTHER -> PlainLines(S, i, k, Split(chunk), 1)

\* ------------------------------------------------- downstream 'close'
\* res.on('close', ...); chat and chatWithFile of "main" register it for a
\* streaming request only, and a rejected request has none (req[i].onClose).
OnClose(S, i) ==
    CASE ~req[i].onClose -> S
      [] impl = "main" -> removeActiveRequest(Abort(S, i), i)
      [] impl = "safe" -> safeEnd(Abort(S, i), i)
      [] OTHER -> removeActiveRequest(S, i)

\* ------------------------------------------------------------ the sweep
\* cleanupExpiredRequests(): the entries in insertion order, from id j on.
RECURSIVE SweepFrom(_, _, _)
SweepFrom(S, t, j) ==
    IF j > MaxReq THEN S
    ELSE IF S.reg[j].present /\ t - S.reg[j].startTime > tenMinutes
    THEN LET S1 == Abort(S, j)
             S2 == IF ~S1.res[j].headersSent THEN End(S1, j) ELSE S1
         IN SweepFrom(removeActiveRequest(S2, j), t, j + 1)
    ELSE SweepFrom(S, t, j + 1)

cleanupExpiredRequests(S, t) == SweepFrom(S, t, 1)

\* What a call made for an entry inside the sweep's loop does: "none" (it
\* returns), or it throws: "abort" (abortController.abort()) or "end"
\* (response.end()).  A call that throws has had no effect.
SweepFaults == [Ids -> {"none", "abort", "end"}]

\* A sweep without its try/catch: the first call that throws ends the loop
\* with the entry still in the registry.
RECURSIVE SweepNoCatch(_, _, _, _)
SweepNoCatch(S, t, j, fault) ==
    IF j > MaxReq THEN S
    ELSE IF S.reg[j].present /\ t - S.reg[j].startTime > tenMinutes
    THEN IF fault[j] = "abort" THEN S
         ELSE LET S1 == Abort(S, j) IN
              IF ~S1.res[j].headersSent /\ fault[j] = "end" THEN S1
              ELSE LET S2 == IF ~S1.res[j].headersSent THEN End(S1, j) ELSE S1
                   IN SweepNoCatch(removeActiveRequest(S2, j), t, j + 1, fault)
    ELSE SweepNoCatch(S, t, j + 1, fault)

\* The sweep's loop with the calls that throw: try { abort(); if
\* (!headersSent) end() } catch { log }; delete.
RECURSIVE SweepFaulty(_, _, _, _)
SweepFaulty(S, t, j, fault) ==
    IF j > MaxReq THEN S
    ELSE IF S.reg[j].present /\ t - S.reg[j].startTime > tenMinutes
    THEN LET S1 == IF fault[j] = "abort" THEN S ELSE Abort(S, j)
             S2 == IF fault[j] = "none" /\ ~S1.res[j].headersSent
                   THEN End(S1, j) ELSE S1
         IN SweepFaulty(removeActiveRequest(S2, j), t, j + 1, fault)
    ELSE SweepFaulty(S, t, j + 1, fault)

\* ------------------------------------------------------ the stop command
\* A stop that sets the header of the tracked response whatever its state.
StopSetsHeaderAlways(S, i) == TRUE

\* A stopAll that takes every entry, whoever owns it.
StopAllTakesAny(entry, u) == TRUE

\* stop sets the Content-Type header of the tracked response only when its
\* headers are not sent yet.
StopSetsHeader(S, i) == ~S.res[i].headersSent

\* A stop without the ownership check.
StopOneAnyCaller(S, u, i) ==
    IF ~S.reg[i].present THEN [S |-> S, outcome |-> "not-found"]
    ELSE LET S1 == Abort(S, i)
             S2 == IF ~S1.res[i].writableEnded
                   THEN End(Write(S1, i, StoppedEv(i)), i)
                   ELSE S1
         IN [S |-> removeActiveRequest(S2, i), outcome |-> "stopped"]

\* A stop that cancels the tracked request before it checks the owner.
StopOneCancelsFirst(S, u, i) ==
    LET tracked == S.reg[i] IN
    IF ~tracked.present THEN [S |-> S, outcome |-> "not-found"]
    ELSE LET S1 == Abort(S, i) IN
         IF tracked.userId # "" /\ tracked.userId # u
         THEN [S |-> S1, outcome |-> "forbidden"]
         ELSE LET S2 == IF ~S1.res[i].writableEnded
                        THEN End(Write(S1, i, StoppedEv(i)), i)
                        ELSE S1
              IN [S |-> removeActiveRequest(S2, i), outcome |-> "stopped"]

\* stop with a requestId, served for caller u: the state after it and its
\* answer, "stopped" (200), "not-found" (404), "forbidden" (403) or
\* "error" (500, the outer catch).
StopOne(S, u, i) ==
    LET tracked == S.reg[i] IN
    IF ~tracked.present THEN [S |-> S, outcome |-> "not-found"]
    ELSE IF tracked.userId # "" /\ tracked.userId # u
    THEN [S |-> S, outcome |-> "forbidden"]
    ELSE LET S1 == Abort(S, i)
             open == ~S1.res[i].writableEnded
             throws == open /\ StopSetsHeader(S1, i) /\ HeadersThrow(S1, i)
             S2 == IF open /\ ~throws
                   THEN End(Write(S1, i, StoppedEv(i)), i)
                   ELSE S1
         IN [S |-> removeActiveRequest(S2, i),
             outcome |-> IF throws THEN "error" ELSE "stopped"]

\* Whether stopAll of caller u takes the entry.
StopAllTakes(entry, u) == entry.userId = "" \/ entry.userId = u

\* stop with stopAll, served for caller u: the loop over the entries in
\* insertion order, from id j on; n counts the entries stopped.
RECURSIVE StopAllFrom(_, _, _, _)
StopAllFrom(S, u, j, n) ==
    IF j > MaxReq THEN [S |-> S, count |-> n]
    ELSE IF S.reg[j].present /\ StopAllTakes(S.reg[j], u)
    THEN LET S1 == Abort(S, j)
             S2 == IF ~S1.res[j].writableEnded
                   THEN End(Write(S1, j, StoppedEv(j)), j)
                   ELSE S1
         IN StopAllFrom(removeActiveRequest(S2, j), u, j + 1, n + 1)
    ELSE StopAllFrom(S, u, j + 1, n)

\* What a call made for an entry inside the stopAll loop does: "none" (it
\* returns), or it throws: "abort" (abortController.abort()), "write"
\* (response.write) or "end" (response.end()).  A call that throws has had
\* no effect.
Faults == [Ids -> {"none", "abort", "write", "end"}]

\* A stopAll loop without its try/catch blocks: the first call that throws
\* ends the loop and the outer catch of stop answers 500.
RECURSIVE StopAllNoCatch(_, _, _, _, _)
StopAllNoCatch(S, u, j, n, fault) ==
    IF j > MaxReq THEN [S |-> S, count |-> n, outcome |-> "ok"]
    ELSE IF S.reg[j].present /\ StopAllTakes(S.reg[j], u)
    THEN IF fault[j] = "abort" \/ (fault[j] # "none" /\ ~S.res[j].writableEnded)
         THEN [S |-> S, count |-> n, outcome |-> "error"]
         ELSE LET S1 == Abort(S, j)
                  S2 == IF ~S1.res[j].writableEnded
                        THEN End(Write(S1, j, StoppedEv(j)), j)
                        ELSE S1
              IN StopAllNoCatch(removeActiveRequest(S2, j), u, j + 1, n + 1, fault)
    ELSE StopAllNoCatch(S, u, j + 1, n, fault)

\* The stopAll loop with the calls that throw: try { abort(); if (response
\* && !writableEnded) { try { write } catch {} try { end } catch {} } }
\* catch {}; delete; count += 1.
RECURSIVE StopAllFaulty(_, _, _, _, _)
StopAllFaulty(S, u, j, n, fault) ==
    IF j > MaxReq THEN [S |-> S, count |-> n, outcome |-> "ok"]
    ELSE IF S.reg[j].present /\ StopAllTakes(S.reg[j], u)
    THEN LET S1 == IF fault[j] = "abort" THEN S ELSE Abort(S, j)
             open == fault[j] # "abort" /\ ~S1.res[j].writableEnded
             S2 == IF open /\ fault[j] # "write"
                   THEN Write(S1, j, StoppedEv(j)) ELSE S1
             S3 == IF open /\ fault[j] # "end" THEN End(S2, j) ELSE S2
         IN StopAllFaulty(removeActiveRequest(S3, j), u, j + 1, n + 1, fault)
    ELSE StopAllFaulty(S, u, j + 1, n, fault)

\* -------------------------------------------------------------- actions
\* POST /api/llm/chat or /api/llm/chat-with-file with a body that
\* validateChatRequest or the head of the handler answers with 400.
Reject(u, kind) ==
    /\ nextId <= MaxReq
    /\ kind = "file" => impl = "main"
    /\ SomeFail[impl][kind]
    /\ LET i == nextId IN
       /\ Set([Json(Cur, i, Ev("json400", 0, FALSE, <<>>, <<0, 0>>))
                 EXCEPT !.pc[i] = "rejected"])
       /\ req' = [req EXCEPT ![i] = [kind |-> kind, stream |-> FALSE, user |-> u,
                                     file |-> "none", onClose |-> FALSE]]
    /\ nextId' = nextId + 1
    /\ UNCHANGED <<impl, now, body, bodyAll>>

\* POST /api/llm/chat ("main"): validation passed; sweep, register, and wait
\* for the upstream call.
AcceptChat(u, stream, t) ==
    /\ impl = "main"
    /\ SomePass[impl]
    /\ nextId <= MaxReq
    /\ now' = t
    /\ LET i == nextId
           S1 == cleanupExpiredRequests(Cur, t)
           S2 == addActiveRequest(S1, i, u, t)
       IN /\ Set([S2 EXCEPT !.pc[i] = "fetch"])
          /\ req' = [req EXCEPT ![i] = [kind |-> "chat", stream |-> stream,
                                        user |-> u, file |-> "none",
                                        onClose |-> stream]]
    /\ nextId' = nextId + 1
    /\ UNCHANGED <<impl, body, bodyAll>>

\* POST /api/llm/chat-with-file ("main"); file: the named file exists and
\* reads ("ok"), does not exist ("missing"), or fails to read ("unreadable").
AcceptFile(u, stream, file, t) ==
    /\ impl = "main"
    /\ SomePass[impl]
    /\ nextId <= MaxReq
    /\ now' = t
    /\ LET i == nextId
           S1 == cleanupExpiredRequests(Cur, t)
           S2 == addActiveRequest(S1, i, u, t)
           S3 == CASE file = "missing" ->
                        [Json(S2, i, Ev("json404", 0, FALSE, <<>>, <<0, 0>>))
                           EXCEPT !.pc[i] = "returned"]
                   [] file = "unreadable" ->
                        [Json(S2, i, Ev("json500", 0, FALSE, <<>>, <<0, 0>>))
                           EXCEPT !.pc[i] = "returned"]
                   [] OTHER ->
                        [S2 EXCEPT !.pc[i] = IF stream THEN "fetch" ELSE "returned"]
       IN /\ Set(S3)
          /\ req' = [req EXCEPT ![i] = [kind |-> "file", stream |-> stream,
                                        user |-> u, file |-> file,
                                        onClose |-> stream /\ file = "ok"]]
    /\ nextId' = nextId + 1
    /\ UNCHANGED <<impl, body, bodyAll>>

\* chat of "safe" and "plain": register, tell the client the id, and wait for
\* the upstream call.
AcceptLegacy(u) ==
    /\ impl # "main"
    /\ SomePass[impl]
    /\ nextId <= MaxReq
    /\ now' = now
    /\ LET i == nextId
           S1 == addActiveRequest(Cur, i, u, 0)
           S2 == IF impl = "safe" THEN safeWrite(S1, i, StartEv(i))
                 ELSE Write(S1, i, StartEv(i))
       IN /\ Set([S2 EXCEPT !.pc[i] = "fetch"])
          /\ req' = [req EXCEPT ![i] = [kind |-> "chat", stream |-> TRUE,
                                        user |-> u, file |-> "none",
                                        onClose |-> TRUE]]
    /\ nextId' = nextId + 1
    /\ UNCHANGED <<impl, body, bodyAll>>

\* The catch blocks: an awaited upstream promise rejected.
Catch(S, i) ==
    CASE impl = "main" /\ req[i].kind = "chat" /\ req[i].stream ->
           removeActiveRequest(End(Write(S, i, FailEv(i)), i), i)
      [] impl = "main" /\ req[i].kind = "chat" /\ ~req[i].stream ->
           LET S1 == removeActiveRequest(S, i) IN
           IF HeadersThrow(S1, i) THEN [S1 EXCEPT !.esc[i] = TRUE]
           ELSE Json(S1, i, Ev("json500", 0, FALSE, <<>>, <<0, 0>>))
      [] impl = "main" /\ req[i].kind = "file" ->
           IF HeadersThrow(S, i) THEN [S EXCEPT !.esc[i] = TRUE]
           ELSE Json(S, i, Ev("json500", 0, FALSE, <<>>, <<0, 0>>))
      [] impl = "safe" ->
           LET S1 == IF S.res[i].writableEnded THEN S ELSE Write(S, i, FailEv(i))
               S2 == IF S1.res[i].writableEnded THEN S1 ELSE End(S1, i)
           IN removeActiveRequest(S2, i)
      [] OTHER ->
           removeActiveRequest(End(Write(S, i, FailEv(i)), i), i)

\* The upstream call answers 2xx.
FetchOk(i) ==
    /\ pc[i] = "fetch"
    /\ ~aborted[i]
    /\ IF req[i].stream
       THEN \E b \in BodiesFor(i) :
              /\ body' = [body EXCEPT ![i] = b]
              /\ bodyAll' = [bodyAll EXCEPT ![i] = b]
              /\ LET S1 == CASE impl = "main" /\ req[i].kind = "chat" ->
                                  Write(Cur, i, StartEv(i))
                             [] impl = "main" /\ req[i].kind = "file" ->
                                  Write(Cur, i, FileInfoEv(i))
                             [] OTHER -> Cur
                 IN Set([S1 EXCEPT !.pc[i] = "stream"])
       ELSE /\ Set([Cur EXCEPT !.pc[i] = "json"])
            /\ UNCHANGED <<body, bodyAll>>
    /\ UNCHANGED <<impl, now, nextId, req>>

\* The upstream call answers with a non-2xx status.
FetchNotOk(i) ==
    /\ pc[i] = "fetch"
    /\ ~aborted[i]
    /\ CASE impl = "main" -> Set([Cur EXCEPT !.pc[i] = "text"])
         [] impl = "safe" ->
              Set([safeEnd(safeWrite(Cur, i, NotOkEv(i)), i)
                     EXCEPT !.pc[i] = "refused"])
         [] OTHER ->
              Set([removeActiveRequest(End(Write(Cur, i, NotOkEv(i)), i), i)
                     EXCEPT !.pc[i] = "refused"])
    /\ UNCHANGED <<impl, now, nextId, req, body, bodyAll>>

\* "main": response.text() of a non-2xx answer resolves.
TextDone(i) ==
    /\ pc[i] = "text"
    /\ ~aborted[i]
    /\ LET S0 == [Cur EXCEPT !.pc[i] = "refused"] IN
       IF req[i].stream
       THEN Set(removeActiveRequest(End(Write(S0, i, NotOkEv(i)), i), i))
       ELSE LET S1 == removeActiveRequest(S0, i) IN
            IF HeadersThrow(S1, i) THEN Set(Catch(S1, i))
            ELSE Set(Json(S1, i, Ev("json_error", 0, TRUE, <<>>, <<0, 0>>)))
    /\ UNCHANGED <<impl, now, nextId, req, body, bodyAll>>

\* "main", non-streaming chat: response.json() resolves.
JsonDone(i) ==
    /\ pc[i] = "json"
    /\ ~aborted[i]
    /\ LET S1 == removeActiveRequest([Cur EXCEPT !.pc[i] = "answered"], i) IN
       IF HeadersThrow(S1, i) THEN Set(Catch(S1, i))
       ELSE Set(Json(S1, i, Ev("json", i, FALSE, <<>>, <<0, 0>>)))
    /\ UNCHANGED <<impl, now, nextId, req, body, bodyAll>>

\* The awaited upstream promise rejects: the call was aborted, or failed.
FetchFail(i) ==
    /\ pc[i] \in {"fetch", "text", "json"}
    /\ Set(Catch([Cur EXCEPT !.pc[i] = "failed"], i))
    /\ UNCHANGED <<impl, now, nextId, req, body, bodyAll>>

\* The upstream body emits its next chunk.
Data(i) ==
    /\ pc[i] = "stream"
    /\ body[i] # <<>>
    /\ Set(OnData(Cur, i, Len(bodyAll[i]) - Len(body[i]) + 1, Head(body[i])))
    /\ body' = [body EXCEPT ![i] = Tail(@)]
    /\ UNCHANGED <<impl, now, nextId, req, bodyAll>>

\* The upstream body ends.
EndOfBody(i) ==
    /\ pc[i] = "stream"
    /\ body[i] = <<>>
    /\ Set(OnEnd([Cur EXCEPT !.pc[i] = "ended"], i))
    /\ UNCHANGED <<impl, now, nextId, req, body, bodyAll>>

\* The upstream body fails (not an abort).
BodyError(i) ==
    /\ pc[i] = "stream"
    /\ Set(OnError([Cur EXCEPT !.pc[i] = "failed"], i, FALSE))
    /\ UNCHANGED <<impl, now, nextId, req, body, bodyAll>>

\* The downstream connection closes: the client went away, or the response
\* was finished.
Close(i) ==
    /\ pc[i] # "new"
    /\ ~res[i].closed
    /\ Set(OnClose([Cur EXCEPT !.res[i].closed = TRUE], i))
    /\ UNCHANGED <<impl, now, nextId, req, body, bodyAll>>

\* POST /api/llm/stop {requestId: i} by caller u.
Stop(u, i) ==
    /\ Set(StopOne(Cur, u, i).S)
    /\ UNCHANGED <<impl, now, nextId, req, body, bodyAll>>

\* POST /api/llm/stop {stopAll: true} by caller u.
StopAll(u) ==
    /\ Set(StopAllFrom(Cur, u, 1, 0).S)
    /\ UNCHANGED <<impl, now, nextId, req, body, bodyAll>>

\* The readings of the clock when the next request arrives; the clock reads 0
\* at the first one.
Clock ==
    IF nextId = 1 THEN {0}
    ELSE {t \in {now + k * TickMs : k \in 0..MaxTicks} : t <= MaxTicks * TickMs}

Next ==
    \/ \E u \in Users, kind \in {"chat", "file"} : Reject(u, kind)
    \/ \E u \in Users, stream \in BOOLEAN, t \in Clock : AcceptChat(u, stream, t)
    \/ \E u \in Users, stream \in BOOLEAN, file \in {"ok", "missing", "unreadable"},
          t \in Clock : AcceptFile(u, stream, file, t)
    \/ \E u \in Users : AcceptLegacy(u)
    \/ \E i \in Ids : FetchOk(i)
    \/ \E i \in Ids : FetchNotOk(i)
    \/ \E i \in Ids : TextDone(i)
    \/ \E i \in Ids : JsonDone(i)
    \/ \E i \in Ids : FetchFail(i)
    \/ \E i \in Ids : Data(i)
    \/ \E i \in Ids : EndOfBody(i)
    \/ \E i \in Ids : BodyError(i)
    \/ \E i \in Ids : Close(i)
    \/ \E u \in Users, i \in Ids : Stop(u, i)
    \/ \E u \in Users : StopAll(u)

Spec == Init /\ [][Next]_vars

\* ======================================================== the properties
Range(s) == {s[k] : k \in 1..Len(s)}

\* The request has arrived and was registered.
Accepted(i) == pc[i] \notin {"new", "rejected"}

\* The handler of the request still awaits the upstream call or reads its body.
InFlight(i) == pc[i] \in {"fetch", "text", "json", "stream"}

\* The handler of the request and its callbacks are through with it.
Terminal(i) == pc[i] \in {"ended", "failed", "aborted", "refused", "answered",
                          "returned"}

\* The events of the response that forward an upstream frame.
Frames(i) == LET IsFrame(e) == e.at # <<0, 0>> IN SelectSeq(res[i].out, IsFrame)

\* ----------------------------------------------------------------- C1
\* In every state a stop by the owner answers "stopped" or "not-found", and a
\* second one right after it answers "not-found" and changes nothing.
C1_Calls ==
    \A i \in Ids : Accepted(i) =>
        LET u == req[i].user
            r1 == StopOne(Cur, u, i)
            r2 == StopOne(r1.S, u, i)
        IN /\ r1.outcome \in {"stopped", "not-found"}
           /\ r2.outcome = "not-found"
           /\ r2.S = r1.S
           /\ ~r1.S.reg[i].present

\* An id that has left the registry never comes back.
C1_Later ==
    \A i \in Ids : (Accepted(i) /\ ~Registered(i)) => ~activeRequests'[i].present

\* C1: two stop(id) calls by the owner, whatever happens in between: at most
\* one returns "stopped", the later one returns "not-found", and neither ends
\* in an error.
C1_StopTwice == []C1_Calls /\ [][C1_Later]_vars

\* A stop was served for a streaming request and a second one finds nothing.
C1_Witness ==
    \E i \in Ids :
        /\ StoppedEv(i) \in Range(res[i].out)
        /\ res[i].headersSent
        /\ StopOne(Cur, req[i].user, i).outcome = "not-found"

\* ----------------------------------------------------------------- C2
\* The outcome C2 names for caller u and id i in the current registry.
Expected(u, i) ==
    IF ~Registered(i) THEN "not-found"
    ELSE IF activeRequests[i].userId # "" /\ activeRequests[i].userId # u
    THEN "forbidden"
    ELSE "stopped"

\* C2: stop(id, requester) answers "not-found" when no entry has the id,
\* "forbidden" when the entry's owner is non-empty and is not the requester,
\* "stopped" otherwise; after "stopped" the entry is absent and its cancel
\* handle has been invoked.
C2_StopOutcome ==
    \A u \in Users, i \in Ids :
        LET r == StopOne(Cur, u, i) IN
        /\ r.outcome = Expected(u, i)
        /\ r.outcome = "stopped" => ~r.S.reg[i].present /\ r.S.ac[i]

\* One request was stopped by its owner, and another caller's stop of a
\* registered request is forbidden.
C2_Witness ==
    \E i, j \in Ids :
        /\ StoppedEv(i) \in Range(res[i].out) /\ ~Registered(i) /\ aborted[i]
        /\ Registered(j)
        /\ \E u \in Users : StopOne(Cur, u, j).outcome = "forbidden"

\* ----------------------------------------------------------------- C3
\* The entries of the registry that belong to u.
Own(u) == {j \in Ids : Registered(j) /\ activeRequests[j].userId = u}

\* C3: stopAll(owner) cancels and removes exactly the entries of the caller,
\* counts them, and leaves every other owner's entry registered, its cancel
\* handle not invoked and its response untouched.
C3_StopAll ==
    \A u \in Users :
        LET r == StopAllFrom(Cur, u, 1, 0) IN
        /\ r.count = Cardinality(Own(u))
        /\ \A j \in Own(u) : ~r.S.reg[j].present /\ r.S.ac[j]
        /\ \A j \in Ids \ Own(u) :
              /\ r.S.reg[j] = activeRequests[j]
              /\ r.S.ac[j] = aborted[j]
              /\ r.S.res[j] = res[j]
              /\ r.S.pc[j] = pc[j]

\* The request of one user was stopped while the request of another user is
\* registered, not cancelled and its response open and unwritten by the stop.
C3_Witness ==
    \E i, j \in Ids :
        /\ req[i].user # req[j].user
        /\ StoppedEv(i) \in Range(res[i].out) /\ ~Registered(i)
        /\ StopAllFrom(Cur, req[i].user, 1, 0).count = 0
        /\ Registered(j) /\ ~aborted[j] /\ ~res[j].writableEnded
        /\ StoppedEv(j) \notin Range(res[j].out)

\* ----------------------------------------------------------------- C4
C4_Step ==
    \A i \in Ids :
        (req[i].stream /\ InFlight(i) /\ Close(i))
            => (~activeRequests'[i].present /\ aborted'[i])

\* C4: when the downstream connection of a streaming request closes while the
\* request is in flight, its entry is removed and its cancel handle invoked.
C4_CloseCancels == [][C4_Step]_vars

\* ----------------------------------------------------------------- C5
\* No upstream frame has been forwarded on the response of i.
NoDelta(i) == Frames(i) = <<>>

C5_Step ==
    \A i \in Ids :
        /\ (req[i].stream /\ InFlight(i) /\ Registered(i) /\ NoDelta(i)
              /\ Stop(req[i].user, i))
              => (StoppedEv(i) \in Range(res'[i].out))
        /\ StoppedEv(i) \in Range(res[i].out) => res'[i].out = res[i].out

\* C5: a stop by the owner of an accepted streaming request, before any frame
\* was forwarded, delivers a 'stopped' event with the id, and no event is
\* written to that response afterwards.
C5_StopBeforeDelta == [][C5_Step]_vars

\* ----------------------------------------------------------------- C6
\* The upstream bodies that hold data frames followed by the sentinel.
SentinelStreams == {Stream1, Stream2}

\* The upstream of request i ended by itself: no stop, sweep or disconnect.
Natural(i) ==
    req[i].stream /\ pc[i] = "ended" /\ ~aborted[i] /\ ~res[i].closed

\* C6: a streaming request whose upstream answers 2xx and emits data frames
\* and then the sentinel, with no stop, sweep or disconnect, writes one start
\* event with the request id, then the forwarded frames, then the sentinel as
\* the last event, and the registry no longer holds the id.
C6_HappyPath ==
    \A i \in Ids :
        (Natural(i) /\ Flatten(bodyAll[i]) \in SentinelStreams) =>
            LET o == res[i].out
                n == Len(o)
            IN /\ n >= 2
               /\ o[1].type \in {"start", "file_info"} /\ o[1].rid = i
               /\ IF req[i].kind = "file"
                  THEN /\ \A k \in 2..n : o[k].type = "raw"
                       /\ Flatten([k \in 1..(n - 1) |-> o[k + 1].data])
                            = Flatten(bodyAll[i])
                  ELSE /\ n >= 3
                       /\ \A k \in 2..(n - 1) : o[k].type = "delta"
                       /\ o[n].type = "done"
               /\ ~Registered(i)

\* ----------------------------------------------------------------- C7
\* C7: when the upstream of a streaming request answers non-2xx, the response
\* receives exactly one error event, carrying the request id and the upstream
\* status, is closed, and the entry is removed.
C7_NotOk ==
    \A i \in Ids :
        (req[i].stream /\ pc[i] = "refused" /\ ~aborted[i] /\ ~res[i].closed) =>
            LET IsError(e) == e.type = "error"
                errs == SelectSeq(res[i].out, IsError)
            IN /\ Len(errs) = 1
               /\ errs[1].rid = i
               /\ errs[1].status
               /\ res[i].writableEnded
               /\ ~Registered(i)

\* ----------------------------------------------------------------- C8
\* What the response of i forwarded: the frames' texts, or, where the chunks
\* are passed on as they come (chatWithFile), the bytes.
Forwarded(i) ==
    LET f == Frames(i) IN
    IF req[i].kind = "file" THEN <<Flatten([k \in 1..Len(f) |-> f[k].data])>>
    ELSE [k \in 1..Len(f) |-> f[k].data]

\* C8: two ways of splitting the same upstream byte stream into chunks make
\* the relay forward the same sequence of frames.
C8_Rechunk ==
    \A i, j \in Ids :
        (/\ Natural(i) /\ Natural(j)
         /\ req[i].kind = req[j].kind
         /\ Flatten(bodyAll[i]) = Flatten(bodyAll[j]))
            => Forwarded(i) = Forwarded(j)

\* ----------------------------------------------------------------- C9
\* Upstream position p comes before position q.
Before(p, q) == p[1] < q[1] \/ (p[1] = q[1] /\ p[2] < q[2])

\* C9: the frames written to a response are in the order in which the
\* upstream emitted them, across and within chunks.
C9_Order ==
    \A i \in Ids :
        LET f == Frames(i) IN
        \A a, b \in 1..Len(f) : a < b => Before(f[a].at, f[b].at)

\* A response to which three frames of one chunk were forwarded.
C9_Witness ==
    \E i \in Ids :
        /\ Len(Frames(i)) >= 3
        /\ Frames(i)[1].at[1] = Frames(i)[3].at[1]

\* ----------------------------------------------------------------- C10
\* No termination trigger has touched the request yet.
Untouched(i) ==
    InFlight(i) /\ ~aborted[i] /\ ~res[i].closed /\ ~res[i].writableEnded

\* C10: the registry holds the entry of an accepted request from acceptance to
\* terminal cleanup, and holds none before acceptance or after the request is
\* through.
C10_Entry ==
    \A i \in Ids :
        /\ ~Accepted(i) => ~Registered(i)
        /\ Untouched(i) => Registered(i)
        /\ Terminal(i) => ~Registered(i)

\* ----------------------------------------------------------------- C11
\* C11: on every exit path of its handler (upstream end, error, non-2xx, fetch
\* failure, downstream close, stop, and chatWithFile's missing file, read
\* failure and stream=false) the entry of an accepted request is removed: no
\* request the handler is through with is still in the registry.
C11_Cleanup ==
    \A i \in Ids : (Accepted(i) /\ Terminal(i)) => ~Registered(i)

\* ----------------------------------------------------------------- C12
\* Text s ends with text p.
EndsWith(s, p) ==
    Len(s) >= Len(p) /\ SubSeq(s, Len(s) - Len(p) + 1, Len(s)) = p

\* Event e on the response of i is a terminal event: the completion sentinel
\* (written by the relay, or inside a chunk passed on as it came), an error
\* event with the request id, or the 'stopped' event with the request id.
IsTerminalEv(i, e) ==
    \/ e.type = "done"
    \/ e.type = "raw" /\ EndsWith(e.data, Frame(DONE))
    \/ e.type = "error" /\ e.rid = i
    \/ e = StoppedEv(i)

\* C12: a streaming request that terminated for a cause the system knows
\* (upstream end, upstream error, stop, sweep), its connection still open, has
\* its response ended with exactly one terminal event, the last event written;
\* a cancelled request (stop or sweep) has 'stopped' and no error event.
C12_TerminalEvent ==
    \A i \in Ids :
        (/\ req[i].stream
         /\ pc[i] \in {"ended", "failed", "aborted"}
         /\ ~res[i].closed) =>
            LET o == res[i].out
                IsTerm(e) == IsTerminalEv(i, e)
                IsError(e) == e.type = "error"
            IN /\ res[i].writableEnded
               /\ Len(SelectSeq(o, IsTerm)) = 1
               /\ IsTerm(o[Len(o)])
               /\ aborted[i] => /\ StoppedEv(i) \in Range(o)
                                /\ SelectSeq(o, IsError) = <<>>

\* ----------------------------------------------------------------- C13
\* The request body has one of the client input errors C13 lists: messages
\* missing, not a list, or empty, a turn without role or content, a role
\* outside system | user | assistant, or a text that is empty or blank.
ClientError(m) ==
    \/ m.shape # "array"
    \/ m.turns = <<>>
    \/ \E k \in 1..Len(m.turns) :
          \/ m.turns[k].role = ""
          \/ m.turns[k].content = <<>>
          \/ m.turns[k].role \notin {"system", "user", "assistant"}
          \/ \A c \in Range(m.turns[k].content) : c = SP

\* Every request body with a client input error is answered with 400 by the
\* route of every copy, whatever its other fields.
C13_Rejects ==
    \A im \in Impls, m \in Messages, optsOk \in BOOLEAN, noName \in BOOLEAN :
        ClientError(m) => Route(im, m, optsOk, noName) = "400"

\* A step that answers an arriving request with 400 leaves the registry as
\* it was, and the request has no entry.
C13_Step ==
    \A i \in Ids :
        (pc[i] = "new" /\ pc'[i] = "rejected")
            => /\ activeRequests' = activeRequests
               /\ res'[i].out = <<Ev("json400", 0, FALSE, <<>>, <<0, 0>>)>>

C14_NonStream ==
    \A i \in Ids :
        (/\ Accepted(i) /\ ~req[i].stream /\ ~res[i].closed
         /\ \/ pc[i] = "answered"
            \/ req[i].file = "ok" /\ pc[i] = "returned") =>
            /\ res[i].out = <<Ev("json", i, FALSE, <<>>, <<0, 0>>)>>
            /\ res[i].writableEnded
            /\ ~Registered(i)

\* ----------------------------------------------------------------- C15
\* C15: no error raised while handling a request leaves its handler.
C15_NoEscape == \A i \in Ids : ~escaped[i]

\* ----------------------------------------------------------------- C16
\* C16: registering an id that is already in the registry fails and leaves
\* the existing entry (owner, start time) as it was.
C16_RegisterFails ==
    \A i \in Ids, u \in Users :
        Registered(i) =>
            addActiveRequest(Cur, i, u, now + TickMs).reg[i] = activeRequests[i]

\* ----------------------------------------------------------------- C17
\* C17: for every request that reached a terminal state, whatever the
\* triggers, the downstream connection was ended exactly once (or was closed
\* by the client) and the cancel handle was invoked.
C17_ExactlyOnce ==
    \A i \in Ids :
        (Accepted(i) /\ Terminal(i)) =>
            /\ res[i].writableEnded \/ res[i].closed
            /\ ~res[i].endAgain
            /\ aborted[i]

\* ----------------------------------------------------------------- C18
\* A termination trigger has performed the cleanup of request i: its entry
\* is gone and its response is ended or closed.
Cleaned(i) ==
    Accepted(i) /\ ~Registered(i) /\ (res[i].writableEnded \/ res[i].closed)

C18_Step ==
    \A i \in Ids :
        Cleaned(i) =>
            /\ activeRequests'[i] = activeRequests[i]
            /\ res'[i].out = res[i].out
            /\ escaped'[i] = escaped[i]

\* C18: once a termination trigger has cleaned a request up, every later
\* trigger for it is a no-op: it does not throw, does not change the
\* registry, and writes no further event to the response.
C18_LoserNoOp == [][C18_Step]_vars

\* ----------------------------------------------------------------- C19
\* The system still owns the upstream call of request i: the request was
\* accepted, and its call has not completed, failed, or been stopped or reaped.
Owned(i) == InFlight(i) /\ ~aborted[i] /\ ~res[i].writableEnded

\* C19: in every state the registry has an entry for a request iff the
\* system still owns its upstream call; a request answered without an
\* upstream call has no entry.
C19_Iff == \A i \in Ids : Registered(i) <=> Owned(i)

\* ----------------------------------------------------------------- C20
\* C20: the sweep treats a registered entry older than ten minutes as a stop
\* by its owner would: abort, 'stopped' event and end on a response not yet
\* ended, entry removed; the request's state after the sweep equals its state
\* after stop(id).
C20_SweepAsStop ==
    \A i \in Ids :
        (impl = "main" /\ Registered(i)) =>
            LET t == activeRequests[i].startTime + tenMinutes + TickMs
                a == cleanupExpiredRequests(Cur, t)
                b == StopOne(Cur, activeRequests[i].userId, i).S
            IN /\ a.reg[i] = b.reg[i]
               /\ a.ac[i] = b.ac[i]
               /\ a.res[i] = b.res[i]
               /\ a.pc[i] = b.pc[i]

\* ---------------------------------------------------------------- C21
\* The steps that need no further request of a client: the upstream call
\* settles, the upstream body emits its events.
UpstreamStep ==
    \E i \in Ids :
        \/ FetchOk(i) \/ FetchNotOk(i) \/ TextDone(i) \/ JsonDone(i)
        \/ FetchFail(i) \/ Data(i) \/ EndOfBody(i) \/ BodyError(i)

\* The downstream connection of some request closes.
CloseStep == \E i \in Ids : Close(i)

\* C21: the sweep runs on its own timer, so an entry is removed even if no
\* further request is accepted: while an entry is in the registry, some step
\* that needs no request of a client (an upstream event, a 'close', a timer)
\* is still to come.
C21_JanitorDue ==
    (\E i \in Ids : Registered(i)) => ENABLED (UpstreamStep \/ CloseStep)

\* ---------------------------------------------------------------- C22
\* A line of an upstream chunk is a frame when it starts with "data: "; it is
\* the sentinel, well-formed (its payload parses) or malformed.
IsSentinel(line) == StartsWith(line, DataPrefix) /\ Trim(Slice(line, 6)) = DONE

WellFormed(line) ==
    StartsWith(line, DataPrefix) /\ ~IsSentinel(line) /\ JsonOk(Slice(line, 6))

Malformed(line) ==
    StartsWith(line, DataPrefix) /\ ~IsSentinel(line) /\ ~JsonOk(Slice(line, 6))

\* The events of a response that forward line l of chunk k (an event at
\* <<k, 0>> forwards the whole chunk).
Forwards(out, k, l) == {e \in Range(out) : e.at = <<k, l>> \/ e.at = <<k, 0>>}

\* The 'data' callback of request i runs on a chunk that holds a malformed
\* frame before any sentinel, the response being open and the entry present:
\* the malformed frame is not forwarded, the well-formed frames of the chunk
\* up to the sentinel are, and without a sentinel in the chunk the response
\* stays open and the entry stays.
C22_Step ==
    \A i \in Ids :
        (/\ pc[i] = "stream" /\ body[i] # <<>> /\ body'[i] = Tail(body[i])
         /\ ~res[i].writableEnded /\ ~res[i].closed /\ Registered(i))
        => LET k == Len(bodyAll[i]) - Len(body[i]) + 1
               lines == Split(Head(body[i]))
               Live(l) == \A m \in 1..(l - 1) : ~IsSentinel(lines[m])
           IN \A b \in 1..Len(lines) :
                (Malformed(lines[b]) /\ Live(b)) =>
                    /\ Forwards(res'[i].out, k, b) = {}
                    /\ \A l \in 1..Len(lines) :
                          (WellFormed(lines[l]) /\ Live(l)) =>
                              Forwards(res'[i].out, k, l) # {}
                    /\ Live(Len(lines) + 1) =>
                          /\ ~res'[i].writableEnded
                          /\ activeRequests'[i].present

\* C22: a malformed frame is neither forwarded downstream nor does it end
\* the stream: the connection stays open, the entry stays in the registry and
\* the later well-formed frames are still forwarded.
C22_MalformedDropped == [][C22_Step]_vars

\* ---------------------------------------------------------------- C23
\* C23: whenever a streaming request is in the registry and its upstream
\* call is in flight, the client has already been sent an event that carries
\* the request id (the 'start' event goes out before the upstream call).
C23_IdBeforeUpstream ==
    \A i \in Ids :
        (req[i].stream /\ Registered(i) /\ InFlight(i))
        => \E e \in Range(res[i].out) : e.rid = i

\* ---------------------------------------------------------------- C24
\* An entry comes into the registry only under the identifier the arriving
\* request has just been given, identifiers are given once, and a request
\* that has arrived never counts as not arrived again.
C24_Step ==
    /\ nextId' >= nextId
    /\ \A i \in Ids :
          /\ pc[i] # "new" => pc'[i] # "new"
          /\ (~Registered(i) /\ activeRequests'[i].present)
             => (pc[i] = "new" /\ i = nextId /\ nextId' = i + 1)

\* C24: once an entry has been removed from the registry, no entry with its
\* id is present in any later state: identifiers are never reused and no stop,
\* sweep, close or late upstream event puts a removed entry back.
C24_NoResurrection == [][C24_Step]_vars

\* An entry was removed by a stop while its upstream call was pending, the
\* rejection of the call arrived after that, and a later request is in the
\* registry.
C24_Witness ==
    \E i \in Ids, j \in Ids :
        /\ i < j
        /\ pc[i] = "failed" /\ StoppedEv(i) \in Range(res[i].out)
        /\ res[i].closed
        /\ ~Registered(i)
        /\ Registered(j)

\* ---------------------------------------------------------------- C25
\* C25: stopAll tolerates individual failures: whichever of the calls made
\* for the caller's entries throw, and whichever of their responses are
\* already destroyed, stopAll reports no error, counts every entry of the
\* caller, leaves none of them in the registry, and does for every entry
\* without a failure what it does when nothing fails.
C25_StopAllTolerant ==
    \A u \in Users, fault \in Faults :
        LET r == StopAllFaulty(Cur, u, 1, 0, fault)
            r0 == StopAllFrom(Cur, u, 1, 0)
        IN /\ r.outcome = "ok"
           /\ r.count = Cardinality(Own(u))
           /\ \A j \in Own(u) : ~r.S.reg[j].present
           /\ \A j \in Ids : fault[j] = "none" =>
                 /\ r.S.res[j] = r0.S.res[j]
                 /\ r.S.ac[j] = r0.S.ac[j]
                 /\ r.S.reg[j] = r0.S.reg[j]
           /\ r.S.esc = escaped
           /\ (\A j \in Ids : fault[j] = "none") => r.S = r0.S /\ r.count = r0.count

\* Two requests of one user have been stopped: the response of the first was
\* destroyed before, so the 'stopped' event could not be written to it; the
\* second received the event.
C25_Witness ==
    \E i, j \in Ids :
        /\ i < j /\ req[i].user = req[j].user
        /\ ~Registered(i) /\ ~Registered(j)
        /\ aborted[i] /\ aborted[j]
        /\ res[i].closed /\ StoppedEv(i) \notin Range(res[i].out)
        /\ pc[i] = "fetch" /\ pc[j] = "fetch"
        /\ StoppedEv(j) \in Range(res[j].out)

\* ---------------------------------------------------------------- C26
\* abort() of entry i makes the upstream body emit 'error' to its callback.
Due(S, i) == ~S.ac[i] /\ S.pc[i] = "stream"

\* abort() alone: the signal is set, the callbacks it fires not yet run.
AbortOnly(S, i) ==
    IF S.ac[i] THEN S
    ELSE [S EXCEPT !.ac[i] = TRUE,
                   !.pc[i] = IF @ = "stream" THEN "aborted" ELSE @]

\* The 'error' callbacks of the entries in D, run one after the other.
RECURSIVE Callbacks(_, _, _)
Callbacks(S, D, j) ==
    IF j > MaxReq THEN S
    ELSE Callbacks(IF j \in D THEN OnError(S, j, TRUE) ELSE S, D, j + 1)

\* stop(id) run as one step, the callback of the abort after it.
StopOneAlone(S, u, i) ==
    LET tracked == S.reg[i] IN
    IF ~tracked.present \/ (tracked.userId # "" /\ tracked.userId # u) THEN S
    ELSE LET S1 == AbortOnly(S, i)
             S2 == IF ~S1.res[i].writableEnded
                   THEN End(Write(S1, i, StoppedEv(i)), i)
                   ELSE S1
         IN Callbacks(removeActiveRequest(S2, i), IF Due(S, i) THEN {i} ELSE {}, 1)

\* The stopAll loop run as one step, from entry j on.
RECURSIVE StopAllAlone(_, _, _)
StopAllAlone(S, u, j) ==
    IF j > MaxReq THEN S
    ELSE IF S.reg[j].present /\ StopAllTakes(S.reg[j], u)
    THEN LET S1 == AbortOnly(S, j)
             S2 == IF ~S1.res[j].writableEnded
                   THEN End(Write(S1, j, StoppedEv(j)), j)
                   ELSE S1
         IN StopAllAlone(removeActiveRequest(S2, j), u, j + 1)
    ELSE StopAllAlone(S, u, j + 1)

\* The sweep's loop run as one step, from entry j on.
RECURSIVE SweepAlone(_, _, _)
SweepAlone(S, t, j) ==
    IF j > MaxReq THEN S
    ELSE IF S.reg[j].present /\ t - S.reg[j].startTime > tenMinutes
    THEN LET S1 == AbortOnly(S, j)
             S2 == IF ~S1.res[j].headersSent THEN End(S1, j) ELSE S1
         IN SweepAlone(removeActiveRequest(S2, j), t, j + 1)
    ELSE SweepAlone(S, t, j + 1)

\* C26: stop(id), the stopAll loop and the sweep's loop are atomic with
\* respect to the other handlers: what each of them does in any state is what
\* it does when it runs as one step with no callback of another handler
\* inside it, the callbacks its aborts make due running after it.
C26_Atomic ==
    /\ \A u \in Users, i \in Ids :
          StopOne(Cur, u, i).S = StopOneAlone(Cur, u, i)
    /\ \A u \in Users :
          StopAllFrom(Cur, u, 1, 0).S =
             Callbacks(StopAllAlone(Cur, u, 1),
                       {j \in Ids : Due(Cur, j) /\ Registered(j)
                                    /\ StopAllTakes(activeRequests[j], u)}, 1)
    /\ \A k \in 0..(MaxTicks + 1) :
          LET t == k * TickMs IN
          cleanupExpiredRequests(Cur, t) =
             Callbacks(SweepAlone(Cur, t, 1),
                       {j \in Ids : Due(Cur, j) /\ Registered(j)
                            /\ t - activeRequests[j].startTime > tenMinutes}, 1)

\* ---------------------------------------------------------------- C27
\* C27: no event is written to a downstream connection after it has been
\* ended: every res.write happens while the response is not yet ended.
C27_NoWriteAfterEnd == \A i \in Ids : ~res[i].writeAfterEnd

\* ---------------------------------------------------------------- C28
\* C28: stop(id, requester) changes nothing about any request other than id
\* (registry entry, cancel handle, downstream connection), and with the
\* outcome "not-found" or "forbidden" it changes nothing at all.
C28_StopFrame ==
    \A u \in Users, i \in Ids :
        LET r == StopOne(Cur, u, i) IN
        /\ \A j \in Ids \ {i} :
              /\ r.S.reg[j] = activeRequests[j]
              /\ r.S.ac[j] = aborted[j]
              /\ r.S.res[j] = res[j]
              /\ r.S.fin[j] = finished[j]
              /\ r.S.pc[j] = pc[j]
              /\ r.S.esc[j] = escaped[j]
        /\ r.outcome \in {"not-found", "forbidden"} => r.S = Cur

\* Request i was stopped by its owner while request j of the same owner is
\* registered, streaming, not cancelled and has received no 'stopped'; a stop
\* of j by the other user is "forbidden" and one more stop of i "not-found".
C28_Witness ==
    \E i, j \in Ids :
        /\ i # j /\ req[i].user = req[j].user
        /\ StoppedEv(i) \in Range(res[i].out) /\ ~Registered(i) /\ aborted[i]
        /\ Registered(j) /\ pc[j] = "stream" /\ ~aborted[j]
        /\ ~res[j].writableEnded /\ StoppedEv(j) \notin Range(res[j].out)
        /\ StopOne(Cur, req[i].user, i).outcome = "not-found"
        /\ \E u \in Users : StopOne(Cur, u, j).outcome = "forbidden"

\* ---------------------------------------------------------------- C29
\* The readings of the clock a sweep is checked at: the multiples of ten
\* minutes and the millisecond after each.
SweepTimes == UNION {{k * TickMs, k * TickMs + 1} : k \in 0..(MaxTicks + 1)}

\* C29: a sweep leaves every entry that is at most ten minutes old as it is
\* (in the registry, not cancelled, its response untouched); and whichever
\* calls made for the stale entries throw, every stale entry is removed and
\* every stale entry without a failure is treated as in a sweep where
\* nothing fails.
C29_SweepFrame ==
    impl = "main" =>
    \A t \in SweepTimes, fault \in SweepFaults :
        LET r == SweepFaulty(Cur, t, 1, fault)
            r0 == cleanupExpiredRequests(Cur, t)
            Stale(j) == Registered(j) /\ t - activeRequests[j].startTime > tenMinutes
        IN /\ \A j \in Ids : ~Stale(j) =>
                 /\ r.reg[j] = activeRequests[j]
                 /\ r.ac[j] = aborted[j]
                 /\ r.res[j] = res[j]
                 /\ r.pc[j] = pc[j]
           /\ \A j \in Ids : Stale(j) =>
                 /\ ~r.reg[j].present
                 /\ fault[j] = "none" =>
                       /\ r.ac[j] /\ r.ac[j] = r0.ac[j]
                       /\ r.res[j] = r0.res[j]
           /\ r.esc = escaped
           /\ (\A j \in Ids : fault[j] = "none") => r = r0

\* The sweep a second request ran removed the first, which was waiting for
\* its upstream call; the second is in the registry, a sweep leaves it alone
\* when it is exactly ten minutes old and takes it a millisecond later.
C29_Witness ==
    \E i, j \in Ids :
        /\ impl = "main" /\ i < j
        /\ ~Registered(i) /\ aborted[i] /\ pc[i] = "fetch"
        /\ res[i].writableEnded /\ StoppedEv(i) \notin Range(res[i].out)
        /\ Registered(j) /\ ~aborted[j]
        /\ LET t == activeRequests[j].startTime + tenMinutes IN
           /\ t \in SweepTimes
           /\ cleanupExpiredRequests(Cur, t) = Cur
           /\ ~cleanupExpiredRequests(Cur, t + 1).reg[j].present

====
